---- MODULE Spec2Model ----
(***************************************************************************)
(* A model of mseipopt: the array-aware layer (bare_np.py) and the         *)
(* convenience layer (ez.py) on top of the raw IPOPT C interface           *)
(* (bare.py).  The native library is the environment: its results are      *)
(* drawn nondeterministically, and the model records every call that       *)
(* crosses into it.                                                        *)
(***************************************************************************)
EXTENDS Integers, Sequences, FiniteSets, TLC

\* ---------------------------------------------------------------- bounds
MaxDim == 1          \* sizes of the bound vectors given to a constructor: 0..MaxDim
MaxHandles == 2      \* CreateIpoptProblem calls that return a handle
MaxCb == 2           \* intermediate callbacks registered per problem
MaxDepth == 2        \* nested `with` blocks on one problem

Dims == 0..MaxDim
Handles == 1..MaxHandles
NULL == 0

VARIABLES
    cls,            \* class of the Problem object: "none" (no object), "bare_np", "ez"
    problem,        \* self._problem: NULL or a handle
    n, m,           \* self.n, self.m
    hasCallbacks,   \* whether the attribute self._callbacks exists
    callbacks,      \* the callback objects self._callbacks refers to
    abort,          \* self._abort (ez)
    depth,          \* `with` blocks on the problem entered and not yet left
    cbSeq,          \* number of intermediate callbacks wrapped for the problem
    nLive,          \* native: handles created and not freed
    nReg,           \* native: handle -> callback objects it holds pointers to
    nFree,          \* native: handle -> number of FreeIpoptProblem calls
    nCreate,        \* native: number of CreateIpoptProblem calls
    nWarm,          \* native: handle -> option warm_start_init_point
    nBad,           \* native: a call was made with a null or freed handle
    owned,          \* the handle the Problem object was constructed with (history)
    nInit,          \* number of constructor calls (history)
    last,           \* outcome of the last Problem method call
    sv,             \* the last solve call, its arguments and what it did, until
                    \* an option, output file or scaling call follows it
    cb              \* the last callback invocation by the native library

objVars == <<cls, problem, n, m, hasCallbacks, callbacks, abort, cbSeq, owned>>
nativeVars == <<nLive, nReg, nFree, nCreate, nWarm, nBad>>
vars == <<cls, problem, n, m, hasCallbacks, callbacks, abort, depth, cbSeq,
          nLive, nReg, nFree, nCreate, nWarm, nBad, owned, nInit, last, sv, cb>>

\* ------------------------------------------------------- callback objects
EvalNames == {"eval_f", "eval_g", "eval_grad_f", "eval_jac_g", "eval_h"}

\* The ctypes callback object made for handle h; k numbers the intermediate ones.
CbObj(h, name, k) == [h |-> h, name |-> name, k |-> k]

\* bare_np.Problem.__init__, the dict saved as self._callbacks.
InitCallbacks(h) == {CbObj(h, nm, 0) : nm \in EvalNames}

Intermediates(S) == {c \in S : c.name = "intermediate_cb"}

\* The outcome of a method call: the exception it raised ("none": it returned),
\* whether it invoked a native function, and what the call was given.
Outcome(op, exc, native, info) ==
    [op |-> op, exc |-> exc, native |-> native, info |-> info]

\* The handle the next successful CreateIpoptProblem returns.
FreshHandle == Cardinality({h \in Handles : h \in nLive \/ nFree[h] > 0}) + 1

\* ----------------------------------------------------------------- arrays
\* What the code can observe of an argument: None, a Python object that is no
\* ndarray (kind "list", of length shape[1]), or an ndarray with its dtype, its
\* flags, its shape and the memory buffer it views.
Arr(kind, dtype, a, w, c, shape, buf) ==
    [kind |-> kind, dtype |-> dtype, aligned |-> a, writeable |-> w,
     contiguous |-> c, shape |-> shape, buf |-> buf]

\* Buffers are named by who allocated them: "caller" is memory of the caller's
\* own object, "zeros", "empty" and "copy" are fresh allocations of np.zeros,
\* np.empty and np.array(copy=True).
None == Arr("None", "none", FALSE, FALSE, FALSE, <<>>, "none")
List(len) == Arr("list", "object", FALSE, FALSE, FALSE, <<len>>, "caller")
Good(shape, buf) == Arr("ndarray", "double", TRUE, TRUE, TRUE, shape, buf)

RECURSIVE Size(_)
Size(shape) == IF shape = <<>> THEN 1 ELSE Head(shape) * Size(Tail(shape))

ArgNames == <<"x", "g", "obj_val", "mult_g", "mult_x_L", "mult_x_U">>

\* The shape solve expects of each argument.
ExpectedShape(name, nn, mm) ==
    CASE name \in {"x", "mult_x_L", "mult_x_U"} -> <<nn>>
      [] name \in {"g", "mult_g"} -> <<mm>>
      [] OTHER -> <<>>

\* A validation that forgets the comparison of the shapes.
validate_io_array_no_shape(a, shape, none_ok) ==
    IF none_ok /\ a.kind = "None" THEN "none"
    ELSE IF a.kind # "ndarray" THEN "TypeError"
    ELSE IF a.dtype # "double" THEN "TypeError"
    ELSE IF ~(a.aligned /\ a.writeable) THEN "ValueError"
    ELSE "none"

\* validate_io_array: the exception it returns, "none" for None (no exception).
validate_io_array(a, shape, none_ok) ==
    IF none_ok /\ a.kind = "None" THEN "none"
    ELSE IF none_ok /\ a.kind # "ndarray" THEN "TypeError"
    ELSE IF ~none_ok /\ a.kind # "ndarray" THEN "TypeError"
    ELSE IF a.dtype # "double" THEN "TypeError"
    ELSE IF ~(a.aligned /\ a.writeable) THEN "ValueError"
    ELSE IF a.shape # shape THEN "ValueError"
    ELSE "none"

\* data_ptr: None for None and for an empty array, else the address of the
\* array's data (the buffer the array views); its two assertions fail for what
\* is no ndarray of doubles.
data_ptr(arr) ==
    IF arr.kind = "None" THEN "NULL"
    ELSE IF arr.kind # "ndarray" \/ arr.dtype # "double" THEN "AssertionError"
    ELSE IF Size(arr.shape) # 0 THEN arr.buf ELSE "NULL"

\* Problem.solve, the chain `validate(x) or validate(g) or ...`: the first
\* exception in argument order, "none" when every argument passes.
RECURSIVE FirstExc(_, _, _, _)
FirstExc(args, i, nn, mm) ==
    IF i > Len(ArgNames) THEN "none"
    ELSE LET e == validate_io_array(args[ArgNames[i]],
                                    ExpectedShape(ArgNames[i], nn, mm),
                                    ArgNames[i] # "x")
         IN IF e # "none" THEN e ELSE FirstExc(args, i + 1, nn, mm)

solve_exc(args, nn, mm) == FirstExc(args, 1, nn, mm)

ArgSet == {ArgNames[i] : i \in 1..Len(ArgNames)}
NoPtrs == [a \in ArgSet |-> "NULL"]

\* bare_np.Problem.solve: the exception it raises, whether it calls the native
\* IpoptSolve, and the data pointers it hands to it.
solve(args, nn, mm) ==
    LET e == solve_exc(args, nn, mm)
    IN  IF e # "none"
        THEN [exc |-> e, called |-> FALSE, ptrs |-> NoPtrs]
        ELSE [exc |-> "none", called |-> TRUE,
              ptrs |-> [a \in ArgSet |-> data_ptr(args[a])]]

\* What is recorded of a solve call: the layer whose solve was called, n and m
\* at the call, the arrays given to bare_np's solve, the outcome, and (for
\* ez) what ez's solve did around it.
SolveRec(layer, nn, mm, args, r, ez) ==
    [layer |-> layer, n |-> nn, m |-> mm, args |-> args, exc |-> r.exc,
     called |-> r.called, ptrs |-> r.ptrs, ez |-> ez]

NoEz == [supplied |-> FALSE]

\* ------------------------------------------------------------ construction
MaxInit == 1         \* constructor calls, those that raise included

\* A constructor that compares only the sizes of the bounds of x.
Problem_init_no_g_check(xl, xu, gl, gu, hGiven, createOk) ==
    IF xu # xl THEN [exc |-> "ValueError", create |-> FALSE, handle |-> NULL]
    ELSE IF ~createOk THEN [exc |-> "RuntimeError", create |-> TRUE, handle |-> NULL]
    ELSE IF ~hGiven THEN [exc |-> "AttributeError", create |-> TRUE, handle |-> FreshHandle]
    ELSE [exc |-> "none", create |-> TRUE, handle |-> FreshHandle]

\* bare_np.Problem.__init__: the exception it raises, whether it calls
\* CreateIpoptProblem, and the handle it stores in self._problem.  xl, xu, gl, gu
\* are the sizes of the bound vectors, hGiven is `h is not None`, createOk is
\* the native library returning a handle.
Problem_init(xl, xu, gl, gu, hGiven, createOk) ==
    IF xu # xl THEN [exc |-> "ValueError", create |-> FALSE, handle |-> NULL]
    ELSE IF gu # gl THEN [exc |-> "ValueError", create |-> FALSE, handle |-> NULL]
    ELSE IF ~createOk THEN [exc |-> "RuntimeError", create |-> TRUE, handle |-> NULL]
    \* `self.str_option(...)`: Problem has no attribute str_option
    ELSE IF ~hGiven THEN [exc |-> "AttributeError", create |-> TRUE, handle |-> FreshHandle]
    ELSE [exc |-> "none", create |-> TRUE, handle |-> FreshHandle]

\* ez.Problem.__init__ around it: the TypeError for a Hessian without nele_hess,
\* then the base constructor, then set_intermediate_callback (icbOk is the
\* native SetIntermediateCallback reporting success).
ez_Problem_init(xl, xu, gl, gu, hessGiven, neleGiven, createOk, icbOk) ==
    LET r == Problem_init(xl, xu, gl, gu, hessGiven, createOk)
    IN  IF hessGiven /\ ~neleGiven
        THEN [exc |-> "TypeError", create |-> FALSE, handle |-> NULL, icb |-> FALSE]
        ELSE IF r.exc # "none"
        THEN [exc |-> r.exc, create |-> r.create, handle |-> r.handle, icb |-> FALSE]
        ELSE IF ~icbOk
        THEN [exc |-> "RuntimeError", create |-> TRUE, handle |-> r.handle, icb |-> FALSE]
        ELSE [exc |-> "none", create |-> TRUE, handle |-> r.handle, icb |-> TRUE]

\* The callbacks CreateIpoptProblem is given pointers to: eval_h is the null
\* function pointer bare.Eval_H_CB() when h is None.
Registered(h, hGiven) ==
    {c \in InitCallbacks(h) : hGiven \/ c.name # "eval_h"}

\* The state after a constructor that ended as r.  A constructor that raises
\* leaves no Problem object behind: its attributes go with it, while a handle
\* the native library has created stays created.
Constructed(c, r, xl, gl, hGiven, info) ==
    LET h == r.handle
        icbs == IF r.icb THEN {CbObj(h, "intermediate_cb", 1)} ELSE {}
    IN  /\ nCreate' = IF r.create THEN nCreate + 1 ELSE nCreate
        /\ nLive' = IF h # NULL THEN nLive \cup {h} ELSE nLive
        /\ nReg' = IF h # NULL
                   THEN [nReg EXCEPT ![h] = Registered(h, hGiven) \cup icbs]
                   ELSE nReg
        /\ UNCHANGED <<nFree, nWarm, nBad>>
        /\ IF r.exc = "none"
           THEN /\ cls' = c
                /\ problem' = h
                /\ owned' = h
                /\ n' = xl
                /\ m' = gl
                /\ hasCallbacks' = TRUE
                /\ callbacks' = InitCallbacks(h) \cup icbs
                /\ cbSeq' = IF r.icb THEN 1 ELSE 0
           ELSE UNCHANGED <<cls, problem, owned, n, m, hasCallbacks, callbacks, cbSeq>>
        /\ nInit' = nInit + 1
        /\ UNCHANGED <<abort, depth, sv, cb>>
        /\ last' = Outcome("init", r.exc, r.create, info)

InitInfo(c, xl, xu, gl, gu, hGiven, createOk, r) ==
    [cls |-> c, xl |-> xl, xu |-> xu, gl |-> gl, gu |-> gu, h |-> hGiven,
     createOk |-> createOk, creates |-> nCreate, live |-> nLive,
     handle |-> r.handle]

BareNpConstruct ==
    /\ cls = "none"
    /\ FreshHandle \in Handles
    /\ nInit < MaxInit
    /\ \E xl, xu, gl, gu \in Dims, hGiven, createOk \in BOOLEAN :
         \E r \in {Problem_init(xl, xu, gl, gu, hGiven, createOk)} :
             Constructed("bare_np", r @@ [icb |-> FALSE],
                         xl, gl, hGiven,
                         InitInfo("bare_np", xl, xu, gl, gu, hGiven, createOk, r))

EzConstruct ==
    /\ cls = "none"
    /\ FreshHandle \in Handles
    /\ nInit < MaxInit
    /\ \E xl, xu, gl, gu \in Dims, hessGiven, neleGiven, createOk, icbOk \in BOOLEAN :
         \E r \in {ez_Problem_init(xl, xu, gl, gu, hessGiven, neleGiven,
                                    createOk, icbOk)} :
             Constructed("ez", r, xl, gl, hessGiven,
                         InitInfo("ez", xl, xu, gl, gu, hessGiven, createOk, r))

\* The program drops a Problem it has released; it may then construct another.
Discard ==
    /\ cls # "none"
    /\ problem = NULL
    /\ depth = 0
    /\ cls' = "none"
    /\ n' = 0
    /\ m' = 0
    /\ hasCallbacks' = FALSE
    /\ callbacks' = {}
    /\ abort' = FALSE
    /\ cbSeq' = 0
    /\ owned' = NULL
    /\ last' = Outcome("discard", "none", FALSE, [x |-> 0])
    /\ sv' = [layer |-> "none"]
    /\ cb' = [kind |-> "none"]
    /\ UNCHANGED <<problem, depth, nInit>>
    /\ UNCHANGED nativeVars

\* ------------------------------------------------------- release, `with`
\* Problem.free: `if not self._problem: raise RuntimeError`.
free_raises(p) == p = NULL

\* A free() that forgets `self._problem = None`.
free_problem_kept(p) == p

\* Problem.free: the value of self._problem after the release.
free_problem(p) == NULL

\* Problem.free, called as method `op` (free itself, or __exit__).
free(op, info) ==
    IF free_raises(problem)
    THEN /\ last' = Outcome(op, "RuntimeError", FALSE, info)
         /\ UNCHANGED objVars
         /\ UNCHANGED nativeVars
    ELSE /\ nFree' = [nFree EXCEPT ![problem] = @ + 1]    \* bare.FreeIpoptProblem
         /\ nLive' = nLive \ {problem}
         /\ nReg' = [nReg EXCEPT ![problem] = {}]
         /\ nBad' = (nBad \/ problem \notin nLive)
         /\ hasCallbacks' = FALSE                         \* del self._callbacks
         /\ callbacks' = {}
         /\ problem' = free_problem(problem)
         /\ last' = Outcome(op, "none", TRUE, info)
         /\ UNCHANGED <<cls, n, m, abort, cbSeq, owned, nCreate, nWarm>>

Free ==
    /\ cls # "none"
    /\ free("free", [before |-> problem, bodyRaised |-> FALSE])
    /\ UNCHANGED <<depth, nInit, sv, cb>>

\* An __enter__ without its check of self._problem.
enter_exc_unchecked(p) == "none"

\* Problem.__enter__: the exception it raises for self._problem = p.
enter_exc(p) == IF p = NULL THEN "RuntimeError" ELSE "none"

Enter ==
    /\ cls # "none"
    /\ depth < MaxDepth
    /\ last' = Outcome("enter", enter_exc(problem), FALSE, [before |-> problem])
    /\ depth' = IF enter_exc(problem) = "none" THEN depth + 1 ELSE depth
    /\ UNCHANGED objVars
    /\ UNCHANGED nativeVars
    /\ UNCHANGED <<nInit, sv, cb>>

\* Problem.__exit__, as a `with` block is left, normally or by an exception of
\* its body: it calls free() whatever its arguments are.
Exit ==
    /\ depth > 0
    /\ depth' = depth - 1
    /\ \E bodyRaised \in BOOLEAN :
         free("exit", [before |-> problem, bodyRaised |-> bodyRaised])
    /\ UNCHANGED <<nInit, sv, cb>>

\* Problem.set_intermediate_callback; ok is what the native
\* SetIntermediateCallback returns.  On a released problem the native function
\* is called with None for the handle, and self._callbacks no longer exists.
SetIntermediateCallback ==
    /\ cls # "none"
    /\ cbSeq < MaxCb
    /\ \E ok \in BOOLEAN :
         LET new == CbObj(owned, "intermediate_cb", cbSeq + 1)
             live == problem \in nLive
             exc == IF ~ok THEN "RuntimeError"
                    ELSE IF ~hasCallbacks THEN "AttributeError"
                    ELSE "none"
         IN  /\ cbSeq' = cbSeq + 1
             /\ nBad' = (nBad \/ ~live)
             /\ nReg' = IF live /\ ok
                        THEN [nReg EXCEPT ![problem] = (@ \ Intermediates(@)) \cup {new}]
                        ELSE nReg
             /\ callbacks' = IF exc = "none"
                             THEN (callbacks \ Intermediates(callbacks)) \cup {new}
                             ELSE callbacks
             /\ last' = Outcome("set_intermediate_callback", exc, TRUE, [ok |-> ok])
    /\ UNCHANGED <<cls, problem, n, m, hasCallbacks, abort, owned, depth, nInit, sv, cb>>
    /\ UNCHANGED <<nLive, nFree, nCreate, nWarm>>

\* ------------------------------------------------------------------ solve
\* The statuses IpoptSolve is taken to return (Solve_Succeeded, a failure).
Statuses == {0, -1}

\* The arguments of the solve calls of this specification: x missing, a list,
\* well formed or of a wrong length, with all or none of the optional arrays.
LifeArgs(nn, mm) ==
    {[a \in ArgSet |->
        IF a = "x" THEN x
        ELSE IF rest THEN Good(ExpectedShape(a, nn, mm), "caller") ELSE None]
     : x \in {None, List(nn), Good(<<nn>>, "caller"), Good(<<nn + 1>>, "caller")},
       rest \in BOOLEAN}

\* bare_np.Problem.solve on the Problem, with the native IpoptSolve it reaches.
BareSolveWith(args) ==
    \E r \in {solve(args, n, m)} :
        /\ sv' = SolveRec("bare_np", n, m, args, r, NoEz)
        /\ nBad' = (nBad \/ (r.called /\ problem \notin nLive))
        /\ \E status \in (IF r.called THEN Statuses ELSE {0}) :
             last' = Outcome("solve", r.exc, r.called, [status |-> status])
        /\ UNCHANGED objVars
        /\ UNCHANGED <<nLive, nReg, nFree, nCreate, nWarm, depth, nInit, cb>>

BareSolve ==
    /\ cls = "bare_np"
    /\ \E args \in LifeArgs(n, m) : BareSolveWith(args)

\* --------------------------------------------------------------- ez.solve
\* add_str_option / add_int_option / add_num_option: the exception raised for
\* the status ok the native AddIpopt*Option returned.
add_option_exc(ok) == IF ~ok THEN "ValueError" ELSE "none"

\* A solve that sets the option to 'yes' and never back to 'no'.
warm_start_sticky(cur, mg, ml, mu) ==
    IF mg \/ ml \/ mu THEN "yes" ELSE cur

\* ez.Problem.solve, its first statement: the value of warm_start_init_point
\* after it, given the value cur before it and whether each multiplier was
\* supplied (is not None).
warm_start_init_point(cur, mg, ml, mu) ==
    IF mg \/ ml \/ mu THEN "yes" ELSE "no"

\* np.broadcast_to(x, (n,)) then np.array(x, np.double, copy=True): the
\* exception raised, "none" when x broadcasts to shape (n,).
broadcast_exc(x, nn) ==
    IF x.kind = "None" THEN "TypeError"
    ELSE IF x.shape = <<>> \/ x.shape = <<1>> \/ x.shape = <<nn>> THEN "none"
    ELSE "ValueError"

\* A solve that ignores `copy` and works on the caller's array.
ez_x_in_place(x, copy, nn) == x

\* ez.Problem.solve: the array given to the base solve as x.
ez_x(x, copy, nn) == IF copy THEN Good(<<nn>>, "copy") ELSE x

\* ez.Problem.solve: a multiplier array, np.zeros(len) when not supplied.
ez_mult(a, len) == IF a.kind = "None" THEN Good(<<len>>, "zeros") ELSE a

\* ez.Problem.solve on arguments x, mult_g, mult_x_L, mult_x_U, copy; optOk is
\* the status of the native AddIpoptStrOption.
ez_solve(x, mg, ml, mu, copy, optOk, nn, mm, cur) ==
    LET warm == warm_start_init_point(cur, mg.kind # "None", ml.kind # "None",
                                      mu.kind # "None")
        args == [x |-> ez_x(x, copy, nn),
                 g |-> Good(<<mm>>, "empty"),
                 obj_val |-> Good(<<>>, "empty"),
                 mult_g |-> ez_mult(mg, mm),
                 mult_x_L |-> ez_mult(ml, nn),
                 mult_x_U |-> ez_mult(mu, nn)]
        r == solve(args, nn, mm)
        be == IF copy THEN broadcast_exc(x, nn) ELSE "none"
    IN  IF add_option_exc(optOk) # "none"
        THEN [exc |-> add_option_exc(optOk), called |-> FALSE, ptrs |-> NoPtrs,
              args |-> args, warm |-> cur, ret |-> None]
        ELSE IF be # "none"
        THEN [exc |-> be, called |-> FALSE, ptrs |-> NoPtrs,
              args |-> args, warm |-> warm, ret |-> None]
        ELSE [exc |-> r.exc, called |-> r.called, ptrs |-> r.ptrs,
              args |-> args, warm |-> warm,
              ret |-> IF r.called THEN args.x ELSE None]

\* The initial points and multipliers given to ez's solve here.
EzX(nn) == {List(nn), List(nn + 2), Good(<<nn>>, "caller")}
EzMult(len) == {None, Good(<<len>>, "caller")}

EzSolve ==
    /\ cls = "ez"
    /\ \E x \in EzX(n), mg \in EzMult(m), ml, mu \in EzMult(n),
          copy, optOk \in BOOLEAN :
         LET live == problem \in nLive
             cur == IF live THEN nWarm[problem] ELSE "unset"
         IN  \E r \in {ez_solve(x, mg, ml, mu, copy, optOk, n, m, cur)} :
             \E status \in (IF r.called THEN Statuses ELSE {0}) :
             /\ nWarm' = IF live THEN [nWarm EXCEPT ![problem] = r.warm] ELSE nWarm
             /\ nBad' = (nBad \/ ~live)
             /\ sv' = SolveRec("ez", n, m, r.args, r,
                               [supplied |-> <<mg.kind # "None", ml.kind # "None",
                                               mu.kind # "None">>,
                                copy |-> copy, x |-> x, live |-> live,
                                optOk |-> optOk, prev |-> cur,
                                warm |-> r.warm, ret |-> r.ret,
                                info |-> IF r.called
                                         THEN [g |-> r.args.g,
                                               obj_val |-> r.args.obj_val,
                                               mult_g |-> r.args.mult_g,
                                               mult_x_L |-> r.args.mult_x_L,
                                               mult_x_U |-> r.args.mult_x_U,
                                               status |-> status]
                                         ELSE [status |-> 0]])
             /\ last' = Outcome("solve", r.exc, TRUE, [status |-> status])
    /\ UNCHANGED objVars
    /\ UNCHANGED <<nLive, nReg, nFree, nCreate, depth, nInit, cb>>

\* ------------------------------------------- options, output file, scaling
\* The strings given as an option keyword, a string value or a file name: a str
\* of ASCII characters, a bytes object, a str with a character outside ASCII.
Texts == {"ascii", "bytes", "non_ascii"}

\* bare.AddIpoptStrOption and its siblings: `s.encode('ascii')` for a str s,
\* which raises UnicodeEncodeError for a character outside ASCII; bytes are
\* passed on as they are.
encode_exc(s) == IF s = "non_ascii" THEN "UnicodeEncodeError" ELSE "none"

\* UnicodeEncodeError is a subclass of ValueError: `except ValueError` catches both.
IsValueError(e) == e \in {"ValueError", "UnicodeEncodeError"}

\* An add_*_option that ignores the status of the native call.
add_option_unchecked(kind, kw, val, ok) ==
    IF encode_exc(kw) # "none" THEN [exc |-> encode_exc(kw), native |-> FALSE]
    ELSE IF kind = "str" /\ encode_exc(val) # "none"
    THEN [exc |-> encode_exc(val), native |-> FALSE]
    ELSE [exc |-> "none", native |-> TRUE]

\* add_str_option / add_int_option / add_num_option with the bare function each
\* calls: kw is the keyword, val the value (a Text for a string option), ok the
\* status the native AddIpopt*Option returns.  Only the string option encodes
\* its value.
add_option(kind, kw, val, ok) ==
    IF encode_exc(kw) # "none" THEN [exc |-> encode_exc(kw), native |-> FALSE]
    ELSE IF kind = "str" /\ encode_exc(val) # "none"
    THEN [exc |-> encode_exc(val), native |-> FALSE]
    ELSE [exc |-> add_option_exc(ok), native |-> TRUE]

\* A method that hands self._problem to the native library without looking at
\* it, and changes nothing else: r is what the method did.
NativeCall(op, r, info) ==
    /\ cls # "none"
    /\ last' = Outcome(op, r.exc, r.native, info)
    /\ nBad' = (nBad \/ (r.native /\ problem \notin nLive))
    /\ sv' = [layer |-> "none"]
    /\ UNCHANGED objVars
    /\ UNCHANGED <<nLive, nReg, nFree, nCreate, nWarm, depth, nInit, cb>>

OptionInfo(kw, val, ok) ==
    [kw |-> kw, val |-> val, ok |-> ok, live |-> problem \in nLive]

AddStrOption ==
    \E kw, val \in Texts, ok \in BOOLEAN :
        NativeCall("add_str_option", add_option("str", kw, val, ok),
                   OptionInfo(kw, val, ok))

AddIntOption ==
    \E kw \in Texts, ok \in BOOLEAN :
        NativeCall("add_int_option", add_option("int", kw, "int", ok),
                   OptionInfo(kw, "int", ok))

AddNumOption ==
    \E kw \in Texts, ok \in BOOLEAN :
        NativeCall("add_num_option", add_option("num", kw, "float", ok),
                   OptionInfo(kw, "float", ok))

\* Problem.open_output_file: the file name is encoded like a keyword, and a
\* zero status of OpenIpoptOutputFile raises RuntimeError.
open_output_file(name, ok) ==
    IF encode_exc(name) # "none" THEN [exc |-> encode_exc(name), native |-> FALSE]
    ELSE [exc |-> IF ~ok THEN "RuntimeError" ELSE "none", native |-> TRUE]

OpenOutputFile ==
    \E name \in Texts, ok \in BOOLEAN :
        NativeCall("open_output_file", open_output_file(name, ok),
                   OptionInfo(name, "int", ok))

\* Problem.set_problem_scaling for scaling arrays of shapes xs and gs on a
\* problem of sizes nn and mm; ok is the status of SetIpoptProblemScaling.
\* The second test is written with `==`: it raises for a g_scaling of shape (m,).
set_problem_scaling(xs, gs, ok, nn, mm) ==
    IF xs # <<nn>> THEN [exc |-> "ValueError", native |-> FALSE]
    ELSE IF gs = <<mm>> THEN [exc |-> "ValueError", native |-> FALSE]
    ELSE [exc |-> IF ~ok THEN "RuntimeError" ELSE "none", native |-> TRUE]

\* The shapes of the scaling arrays given here for an expected length len:
\* the right one, one element too many, a scalar.
ScalingShapes(len) == {<<len>>, <<len + 1>>, <<>>}

SetProblemScaling ==
    \E xs \in ScalingShapes(n), gs \in ScalingShapes(m), ok \in BOOLEAN :
        NativeCall("set_problem_scaling", set_problem_scaling(xs, gs, ok, n, m),
                   [xs |-> xs, gs |-> gs, ok |-> ok, n |-> n, m |-> m,
                    live |-> problem \in nLive])

\* ---------------------------------------------------------- specification
Init ==
    /\ cls = "none"
    /\ problem = NULL
    /\ n = 0
    /\ m = 0
    /\ hasCallbacks = FALSE
    /\ callbacks = {}
    /\ abort = FALSE
    /\ depth = 0
    /\ cbSeq = 0
    /\ owned = NULL
    /\ nInit = 0
    /\ nLive = {}
    /\ nReg = [h \in Handles |-> {}]
    /\ nFree = [h \in Handles |-> 0]
    /\ nCreate = 0
    /\ nWarm = [h \in Handles |-> "unset"]
    /\ nBad = FALSE
    /\ last = Outcome("none", "none", FALSE, [x |-> 0])
    /\ sv = [layer |-> "none"]
    /\ cb = [kind |-> "none"]

Next ==
    \/ BareNpConstruct
    \/ EzConstruct
    \/ Discard
    \/ Free
    \/ Enter
    \/ Exit
    \/ SetIntermediateCallback
    \/ BareSolve

Spec == Init /\ [][Next]_vars

\* ------------------------------------- method calls on a constructed Problem
\* The state after a constructor returned a Problem of either class (only a
\* constructor given a Hessian callback returns): handle 1 is live and holds
\* the callbacks, ez's intermediate callback included.
InitCalls ==
    /\ cls \in {"bare_np", "ez"}
    /\ problem = 1
    /\ owned = 1
    /\ n \in Dims
    /\ m \in Dims
    /\ hasCallbacks = TRUE
    /\ cbSeq = IF cls = "ez" THEN 1 ELSE 0
    /\ callbacks = InitCallbacks(1) \cup
                   (IF cls = "ez" THEN {CbObj(1, "intermediate_cb", 1)} ELSE {})
    /\ abort = FALSE
    /\ depth = 0
    /\ nInit = 1
    /\ nLive = {1}
    /\ nReg = [h \in Handles |-> IF h = 1 THEN callbacks ELSE {}]
    /\ nFree = [h \in Handles |-> 0]
    /\ nCreate = 1
    /\ nWarm = [h \in Handles |-> "unset"]
    /\ nBad = FALSE
    /\ last = Outcome("none", "none", FALSE, [x |-> 0])
    /\ sv = [layer |-> "none"]
    /\ cb = [kind |-> "none"]

NextCalls ==
    \/ AddStrOption
    \/ AddIntOption
    \/ AddNumOption
    \/ OpenOutputFile
    \/ SetProblemScaling
    \/ SetIntermediateCallback
    \/ BareSolve
    \/ Free
    \/ Enter
    \/ Exit

SpecCalls == InitCalls /\ [][NextCalls]_vars

\* ------------------------------------------- solve calls on an ez.Problem
\* The state after ez.Problem(...) returned a problem with n and m in Dims:
\* handle 1 is live and holds the five callbacks and the intermediate one.
InitEz ==
    /\ cls = "ez"
    /\ problem = 1
    /\ owned = 1
    /\ n \in Dims
    /\ m \in Dims
    /\ hasCallbacks = TRUE
    /\ callbacks = InitCallbacks(1) \cup {CbObj(1, "intermediate_cb", 1)}
    /\ abort = FALSE
    /\ depth = 0
    /\ cbSeq = 1
    /\ nInit = 1
    /\ nLive = {1}
    /\ nReg = [h \in Handles |-> IF h = 1 THEN callbacks ELSE {}]
    /\ nFree = [h \in Handles |-> 0]
    /\ nCreate = 1
    /\ nWarm = [h \in Handles |-> "unset"]
    /\ nBad = FALSE
    /\ last = Outcome("none", "none", FALSE, [x |-> 0])
    /\ sv = [layer |-> "none"]
    /\ cb = [kind |-> "none"]

NextEz == EzSolve

SpecEz == InitEz /\ [][NextEz]_vars

\* --------------------------------------- the validation of solve's arguments
MaxLen == 2          \* n and m of the problem whose solve is called: 0..MaxLen

Shapes == {<<>>} \cup {<<k>> : k \in 0..(MaxLen + 1)}

\* A shape other than e.
Wrong(e) == IF e = <<>> THEN <<1>> ELSE <<e[1] + 1>>

\* The ndarrays of shape s that differ from a well-formed one in at most one
\* of dtype, alignment, writeability and contiguity.  An array of fewer than
\* two elements is always contiguous.
Variants(s) ==
    {Good(s, "caller"),
     Arr("ndarray", "float32", TRUE, TRUE, TRUE, s, "caller"),
     Arr("ndarray", "double", FALSE, TRUE, TRUE, s, "caller"),
     Arr("ndarray", "double", TRUE, FALSE, TRUE, s, "caller")}
    \cup (IF Size(s) >= 2
          THEN {Arr("ndarray", "double", TRUE, TRUE, FALSE, s, "caller")}
          ELSE {})

\* The values given for x, and for an optional argument of expected shape e.
XSamples == {None, List(1)} \cup UNION {Variants(s) : s \in Shapes}
OptSamples(e) ==
    {None, Good(e, "caller"), Good(Wrong(e), "caller"),
     Arr("ndarray", "float32", TRUE, TRUE, TRUE, e, "caller")}

SolveInputs(nn, mm) ==
    {[x |-> x, g |-> g, obj_val |-> o, mult_g |-> mg, mult_x_L |-> ml,
      mult_x_U |-> mu] :
        x \in XSamples, g \in OptSamples(<<mm>>), o \in OptSamples(<<>>),
        mg \in OptSamples(<<mm>>), ml \in OptSamples(<<nn>>),
        mu \in OptSamples(<<nn>>)}

\* A bare_np.Problem right after construction, about to be given one solve call.
InitSolve ==
    /\ cls = "bare_np"
    /\ problem = 1
    /\ owned = 1
    /\ n \in 0..MaxLen
    /\ m \in 0..MaxLen
    /\ hasCallbacks = TRUE
    /\ callbacks = InitCallbacks(1)
    /\ abort = FALSE
    /\ depth = 0
    /\ cbSeq = 0
    /\ nInit = 1
    /\ nLive = {1}
    /\ nReg = [h \in Handles |-> IF h = 1 THEN callbacks ELSE {}]
    /\ nFree = [h \in Handles |-> 0]
    /\ nCreate = 1
    /\ nWarm = [h \in Handles |-> "unset"]
    /\ nBad = FALSE
    /\ last = Outcome("none", "none", FALSE, [x |-> 0])
    /\ \E args \in SolveInputs(n, m) :
         sv = SolveRec("input", n, m, args,
                       [exc |-> "none", called |-> FALSE, ptrs |-> NoPtrs], NoEz)
    /\ cb = [kind |-> "none"]

SolveInput ==
    /\ sv.layer = "input"
    /\ BareSolveWith(sv.args)

NextSolve == SolveInput

SpecSolve == InitSolve /\ [][NextSolve]_vars

\* --------------------------------------------------------------- callbacks
MaxNele == 2         \* nele_jac and nele_hess of a sparse callback: 0..MaxNele

\* What a user function does when called: it returns ret, or raises exc.
Excs == {"InvalidPoint", "KeyboardInterrupt", "Exception"}
Returns(ret) == [exc |-> "none", ret |-> ret]
Raises(e) == [exc |-> e, ret |-> 0]

\* bare_np.default_handler prints the traceback and returns.
default_handler(e, ab) == [exc |-> "none", abort |-> ab]

\* A handler that sets the abort flag for every exception.
callback_exception_handler_any(e, ab) == [exc |-> "none", abort |-> TRUE]

\* ez.Problem._callback_exception_handler, with self._abort = ab before it.
callback_exception_handler(e, ab) ==
    IF e = "InvalidPoint" THEN [exc |-> "none", abort |-> ab]
    ELSE IF e = "KeyboardInterrupt" THEN [exc |-> "none", abort |-> TRUE]
    ELSE default_handler(e, ab)

\* The handler h a wrapper holds, called with e: the default one, ez's, a
\* user's callable that returns, or a user's callable that raises.  (An
\* object that is not callable, "not_callable", is never called.)
handler_call(h, e, ab) ==
    CASE h = "default" -> default_handler(e, ab)
      [] h = "ez" -> callback_exception_handler(e, ab)
      [] h = "user_returns" -> [exc |-> "none", abort |-> ab]
      [] h = "user_raises" -> [exc |-> "HandlerError", abort |-> ab]

\* The body shared by wrap_f, wrap_grad_f, wrap_g, wrap_jac_g, wrap_h and
\* wrap_intermediate_cb: inner is what the wrapped callback did, h the handler.
\* escaped is the exception that leaves the wrapper ("none": it returned ret).
\* When one does, ctypes reports it and stores no result: the native caller
\* reads whatever the result slot holds, here `slot`.
wrapper(inner, h, ab, slot) ==
    IF inner.exc = "none"
    THEN [ret |-> inner.ret, escaped |-> "none", raised |-> FALSE,
          handled |-> FALSE, abort |-> ab]
    ELSE IF h = "not_callable"
    THEN [ret |-> 0, escaped |-> "none", raised |-> TRUE,
          handled |-> FALSE, abort |-> ab]
    ELSE LET hr == handler_call(h, inner.exc, ab)
         IN  IF hr.exc # "none"
             THEN [ret |-> slot, escaped |-> hr.exc, raised |-> TRUE,
                   handled |-> TRUE, abort |-> hr.abort]
             ELSE [ret |-> 0, escaped |-> "none", raised |-> TRUE,
                   handled |-> TRUE, abort |-> hr.abort]

\* ez.f_callback and ez.grad_callback around a user function that did `user`:
\* they store its value and return 1.
f_callback(user) == IF user.exc # "none" THEN Raises(user.exc) ELSE Returns(1)
grad_callback(user) == IF user.exc # "none" THEN Raises(user.exc) ELSE Returns(1)

\* ez.g_callback: the user's g is called only when there are constraints.
g_callback(user, mm) ==
    IF mm # 0 /\ user.exc # "none" THEN Raises(user.exc) ELSE Returns(1)

\* ez.Problem._intermediate_callback.
intermediate_callback(ab) == Returns(IF ab THEN 0 ELSE 1)

\* ez.accepts_output for a function whose signature has no parameter `out`
\* ("none"), has it first ("first") or has it later ("later"): the last case
\* reaches `inspect.Parameters`, which does not exist.
accepts_output(sig) ==
    IF sig = "none" THEN [exc |-> "none", val |-> FALSE]
    ELSE IF sig = "first" THEN [exc |-> "none", val |-> FALSE]
    ELSE [exc |-> "AttributeError", val |-> FALSE]

\* Buffers of a sparse callback: a null pointer is <<>> with null = TRUE.
Untouched == -1
Buffer(null, nele) == [null |-> null,
                       data |-> IF null THEN <<>> ELSE [k \in 1..nele |-> Untouched]]
UserValues(nele) == [k \in 1..nele |-> 10 + k]
UserRows(nele) == [k \in 1..nele |-> k - 1]
UserCols(nele) == [k \in 1..nele |-> k]

\* What a sparse callback leaves behind.
SparseResult(r, q, values, iRow, jCol, calls, valArgs) ==
    [exc |-> r.exc, ret |-> r.ret, values |-> values, iRow |-> iRow,
     jCol |-> jCol, calls |-> calls, valArgs |-> valArgs]

\* ez.jac_callback and ez.hess_callback (which = "jac" or "hess") on a query q:
\* the buffers the native library passed (values, iRow, jCol; nele entries),
\* the signature of the user's value function (sig), whether the index
\* pattern is a callable (indCallable) and what the user's function does.
sparse_callback(which, q) ==
    LET values == Buffer(q.valuesNull, q.nele)
        iRow == Buffer(q.iRowNull, q.nele)
        jCol == Buffer(q.jColNull, q.nele)
        acc == accepts_output(q.sig)
        plain == IF which = "jac" THEN <<"x">> ELSE <<"x", "obj_factor", "mult">>
    IN  IF ~q.valuesNull
        THEN IF q.nele = 0
             THEN SparseResult(Returns(1), q, values, iRow, jCol, {}, <<>>)
             ELSE IF acc.exc # "none"
             THEN SparseResult(Raises(acc.exc), q, values, iRow, jCol, {}, <<>>)
             ELSE IF q.user.exc # "none"
             THEN SparseResult(Raises(q.user.exc), q, values, iRow, jCol, {"val"},
                               IF acc.val THEN <<"x", "out">> ELSE plain)
             ELSE SparseResult(Returns(1), q,
                               [values EXCEPT !.data = UserValues(q.nele)],
                               iRow, jCol, {"val"},
                               IF acc.val THEN <<"x", "out">> ELSE plain)
        ELSE IF q.iRowNull \/ q.jColNull \/ q.nele = 0
        THEN SparseResult(Returns(1), q, values, iRow, jCol, {}, <<>>)
        ELSE IF q.indCallable /\ q.user.exc # "none"
        THEN SparseResult(Raises(q.user.exc), q, values, iRow, jCol, {"ind"}, <<>>)
        ELSE SparseResult(Returns(1), q, values,
                          [iRow EXCEPT !.data = UserRows(q.nele)],
                          [jCol EXCEPT !.data = UserCols(q.nele)],
                          IF q.indCallable THEN {"ind"} ELSE {}, <<>>)

\* The invocations of a registered callback by the native library.  With
\* bare_np the user's callback is wrapped as it is and the handler is the
\* constructor's argument; with ez the user's functions are first wrapped by
\* ez's callbacks and the handler is ez's.  The intermediate callback always
\* gets the default handler.
NoSparse == [valuesNull |-> TRUE, iRowNull |-> TRUE, jColNull |-> TRUE,
             nele |-> 0, sig |-> "none", indCallable |-> FALSE]

Query(layer, w, h, user, sp) ==
    [layer |-> layer, wrapper |-> w, handler |-> h, user |-> user] @@ sp

UserOutcomes == {Returns(1), Returns(0)} \cup {Raises(e) : e \in Excs}

BareNpQueries ==
    {Query("bare_np", w, h, u, NoSparse) :
        w \in EvalNames,
        h \in {"default", "user_returns", "user_raises", "not_callable"},
        u \in UserOutcomes}
    \cup {Query("bare_np", "intermediate_cb", "default", u, NoSparse) :
             u \in UserOutcomes}

EzQueries ==
    {Query("ez", w, "ez", u, NoSparse) :
        w \in {"eval_f", "eval_grad_f", "eval_g"},
        u \in {Returns(1)} \cup {Raises(e) : e \in Excs}}
    \cup {Query("ez", "intermediate_cb", "default", Returns(1), NoSparse)}
    \cup {Query("ez", w, "ez", u,
                [valuesNull |-> vn, iRowNull |-> inn, jColNull |-> jn,
                 nele |-> ne, sig |-> sg, indCallable |-> ic]) :
             w \in {"eval_jac_g", "eval_h"},
             u \in {Returns(1)} \cup {Raises(e) : e \in Excs},
             vn \in BOOLEAN, inn \in BOOLEAN, jn \in BOOLEAN,
             ne \in 0..MaxNele, sg \in {"none", "first", "later"},
             ic \in BOOLEAN}

NoSparseResult == SparseResult(Returns(1), NoSparse, Buffer(TRUE, 0),
                               Buffer(TRUE, 0), Buffer(TRUE, 0), {}, <<>>)

\* What the wrapped callback of query q does: [exc, ret] and, for ez's sparse
\* callbacks, the buffers afterwards.
inner_call(q, ab, mm) ==
    IF q.layer = "bare_np" THEN [r |-> q.user, sparse |-> NoSparseResult]
    ELSE IF q.wrapper = "eval_f" THEN [r |-> f_callback(q.user), sparse |-> NoSparseResult]
    ELSE IF q.wrapper = "eval_grad_f"
    THEN [r |-> grad_callback(q.user), sparse |-> NoSparseResult]
    ELSE IF q.wrapper = "eval_g"
    THEN [r |-> g_callback(q.user, mm), sparse |-> NoSparseResult]
    ELSE IF q.wrapper = "intermediate_cb"
    THEN [r |-> intermediate_callback(ab), sparse |-> NoSparseResult]
    ELSE LET sr == sparse_callback(IF q.wrapper = "eval_jac_g" THEN "jac" ELSE "hess", q)
         IN  [r |-> [exc |-> sr.exc, ret |-> sr.ret], sparse |-> sr]

\* A live problem of either class during a solve, and a callback invocation
\* the native library is about to make.
InitCb ==
    /\ \E q \in BareNpQueries \cup EzQueries :
         /\ cb = [kind |-> "input", q |-> q]
         /\ cls = q.layer
         /\ cbSeq = (IF q.layer = "ez" THEN 1 ELSE 0)
         /\ abort \in (IF q.layer = "ez" THEN BOOLEAN ELSE {FALSE})
    /\ problem = 1
    /\ owned = 1
    /\ n \in 1..MaxDim
    /\ m \in Dims
    /\ hasCallbacks = TRUE
    /\ callbacks = InitCallbacks(1) \cup
                     (IF cls = "ez" THEN {CbObj(1, "intermediate_cb", 1)} ELSE {})
    /\ depth = 0
    /\ nInit = 1
    /\ nLive = {1}
    /\ nReg = [h \in Handles |-> IF h = 1 THEN callbacks ELSE {}]
    /\ nFree = [h \in Handles |-> 0]
    /\ nCreate = 1
    /\ nWarm = [h \in Handles |-> "unset"]
    /\ nBad = FALSE
    /\ last = Outcome("none", "none", FALSE, [x |-> 0])
    /\ sv = [layer |-> "none"]

\* The native library calls the callback: ez's callback (if any) runs inside
\* bare_np's wrapper, whose result goes back to the native caller.
InvokeCallback ==
    /\ cb.kind = "input"
    /\ \E slot \in {0, 1} :
       \E i \in {inner_call(cb.q, abort, m)} :
       \E w \in {wrapper(i.r, cb.q.handler, abort, slot)} :
         /\ cb' = [kind |-> "done", q |-> cb.q, ret |-> w.ret,
                   escaped |-> w.escaped, raised |-> w.raised,
                   handled |-> w.handled, inner |-> i.r, sparse |-> i.sparse]
         /\ abort' = w.abort
    /\ UNCHANGED <<cls, problem, n, m, hasCallbacks, callbacks, cbSeq, owned>>
    /\ UNCHANGED nativeVars
    /\ UNCHANGED <<depth, nInit, last, sv>>

NextCb == InvokeCallback

SpecCb == InitCb /\ [][NextCb]_vars

\* ------------------------------------------ abort signalling over solves
MaxSolves == 2       \* solve calls on one ez.Problem

\* The evaluation callbacks of an ez.Problem the native library may invoke.
EvalQueries == {q \in EzQueries : q.wrapper # "intermediate_cb"}

\* The record of a callback invocation during solve number s: the callback, the
\* exception raised inside it, what the native caller got back, and kbd, the
\* number of the solve during which a KeyboardInterrupt was first raised inside
\* an evaluation callback (0: never).
AbortRec(kind, s, active, w, exc, ret, kbd) ==
    [kind |-> kind, solve |-> s, active |-> active, wrapper |-> w,
     exc |-> exc, ret |-> ret, kbd |-> kbd]

\* An ez.Problem right after construction (ez.Problem.__init__ has installed
\* _intermediate_callback; the attribute _abort does not exist yet).
InitAbort ==
    /\ cls = "ez"
    /\ problem = 1
    /\ owned = 1
    /\ n \in 1..MaxDim
    /\ m \in Dims
    /\ hasCallbacks = TRUE
    /\ callbacks = InitCallbacks(1) \cup {CbObj(1, "intermediate_cb", 1)}
    /\ abort = FALSE
    /\ depth = 0
    /\ cbSeq = 1
    /\ nInit = 1
    /\ nLive = {1}
    /\ nReg = [h \in Handles |-> IF h = 1 THEN callbacks ELSE {}]
    /\ nFree = [h \in Handles |-> 0]
    /\ nCreate = 1
    /\ nWarm = [h \in Handles |-> "unset"]
    /\ nBad = FALSE
    /\ last = Outcome("none", "none", FALSE, [x |-> 0])
    /\ sv = [layer |-> "none"]
    /\ cb = AbortRec("none", 0, FALSE, "none", "none", 1, 0)

AbortUnchanged ==
    /\ UNCHANGED <<cls, problem, n, m, hasCallbacks, callbacks, cbSeq, owned>>
    /\ UNCHANGED nativeVars
    /\ UNCHANGED <<depth, nInit, last, sv>>

\* ez.Problem.solve enters the native IpoptSolve, which starts calling back.
SolveBegin ==
    /\ ~cb.active
    /\ cb.solve < MaxSolves
    /\ cb' = AbortRec("begin", cb.solve + 1, TRUE, "none", "none", 1, cb.kbd)
    /\ abort' = abort
    /\ AbortUnchanged

\* IpoptSolve returns.
SolveEnd ==
    /\ cb.active
    /\ cb' = AbortRec("end", cb.solve, FALSE, "none", "none", 1, cb.kbd)
    /\ abort' = abort
    /\ AbortUnchanged

\* The native library invokes an evaluation callback: ez's callback runs inside
\* bare_np's wrapper, with ez's _callback_exception_handler as the handler.
EvalInvoke ==
    /\ cb.active
    /\ \E q \in EvalQueries :
       \E i \in {inner_call(q, abort, m)} :
       \E w \in {wrapper(i.r, q.handler, abort, 0)} :
         /\ cb' = AbortRec("eval", cb.solve, TRUE, q.wrapper, i.r.exc, w.ret,
                           IF cb.kbd = 0 /\ i.r.exc = "KeyboardInterrupt"
                           THEN cb.solve ELSE cb.kbd)
         /\ abort' = w.abort
    /\ AbortUnchanged

\* The native library invokes the intermediate callback installed by the
\* constructor, wrapped by wrap_intermediate_cb with the default handler.
IntermediateInvoke ==
    /\ cb.active
    /\ \E q \in {Query("ez", "intermediate_cb", "default", Returns(1), NoSparse)} :
       \E i \in {inner_call(q, abort, m)} :
       \E w \in {wrapper(i.r, q.handler, abort, 0)} :
         /\ cb' = AbortRec("intermediate", cb.solve, TRUE, q.wrapper, i.r.exc,
                           w.ret, cb.kbd)
         /\ abort' = w.abort
    /\ AbortUnchanged

NextAbort ==
    \/ SolveBegin
    \/ EvalInvoke
    \/ IntermediateInvoke
    \/ SolveEnd

SpecAbort == InitAbort /\ [][NextAbort]_vars

\* ================================================================= claims

\* C2: a problem handle is released at most once: FreeIpoptProblem is called
\* at most one time for each handle, and a free() or __exit__ on a problem
\* that was already released raises RuntimeError without a native call.
C2_ReleasedAtMostOnce ==
    /\ \A h \in Handles : nFree[h] <= 1
    /\ last.op \in {"free", "exit"} =>
         /\ last.info.before = NULL =>
              (last.exc = "RuntimeError" /\ ~last.native)
         /\ last.exc = "none" =>
              (last.info.before # NULL /\ nFree[last.info.before] = 1)

C2_Witness ==
    /\ last.op = "free"
    /\ last.exc = "RuntimeError"
    /\ owned # NULL
    /\ nFree[owned] = 1

\* C3 (as claimed): whenever a handle is live in the native library, every
\* callback registered with it is referenced by the _callbacks mapping of the
\* Problem that holds the handle.
C3_CallbacksOutliveHandle ==
    \A h \in nLive :
        nReg[h] \subseteq (IF cls # "none" /\ problem = h /\ hasCallbacks
                           THEN callbacks ELSE {})

\* C9 (as claimed): __exit__ does not raise and leaves the handle released
\* exactly once, for every body of the `with` block.
C9_ExitNeverRaises ==
    last.op = "exit" => (last.exc = "none" /\ nFree[owned] = 1)

\* C9 (amended): __enter__ succeeds exactly while the handle is live and
\* raises RuntimeError otherwise; __exit__ releases a handle that is still
\* live and returns, and raises RuntimeError without a native call when the
\* body already released it; either way the handle has then been released
\* exactly once.
C9_ContextManager ==
    /\ last.op = "enter" =>
         /\ last.exc = (IF problem = NULL THEN "RuntimeError" ELSE "none")
         /\ ~last.native
    /\ last.op = "exit" =>
         /\ problem = NULL
         /\ nFree[owned] = 1
         /\ last.exc = (IF last.info.before = NULL THEN "RuntimeError" ELSE "none")
         /\ last.native = (last.info.before # NULL)

C9_Witness ==
    /\ last.op = "exit"
    /\ last.info.before = NULL
    /\ last.info.bodyRaised
    /\ nFree[owned] = 1

\* C10: a bare_np.Problem constructor given bound vectors of different sizes
\* (for x, or for g) raises ValueError without calling CreateIpoptProblem;
\* one whose CreateIpoptProblem returns null raises RuntimeError, and no
\* Problem holding a handle exists afterwards.
C10_CreationErrors ==
    (last.op = "init" /\ last.info.cls = "bare_np") =>
        LET i == last.info
            mismatch == i.xl # i.xu \/ i.gl # i.gu
        IN  /\ mismatch =>
                 /\ last.exc = "ValueError"
                 /\ ~last.native
                 /\ nCreate = i.creates
            /\ (~mismatch /\ ~i.createOk) =>
                 /\ last.exc = "RuntimeError"
                 /\ nCreate = i.creates + 1
            /\ last.exc \in {"ValueError", "RuntimeError"} =>
                 /\ cls = "none"
                 /\ problem = NULL
                 /\ i.handle = NULL
                 /\ nLive = i.live

C10_Witness ==
    /\ last.op = "init"
    /\ last.info.cls = "bare_np"
    /\ last.info.xl = last.info.xu
    /\ last.info.gl # last.info.gu
    /\ last.info.createOk
    /\ last.exc = "ValueError"

\* C7: every ez solve call sets warm_start_init_point before the native
\* solve: to 'yes' when a multiplier is supplied, to 'no' otherwise, whatever
\* an earlier call set; multipliers not supplied are zero vectors of length m
\* (mult_g) and n (mult_x_L, mult_x_U).
C7_WarmStart ==
    (sv.layer = "ez" /\ sv.ez.optOk) =>
        LET want == IF \E i \in 1..3 : sv.ez.supplied[i] THEN "yes" ELSE "no"
        IN  /\ sv.ez.warm = want
            /\ nWarm[problem] = want
            /\ ~sv.ez.supplied[1] => sv.args.mult_g = Good(<<sv.m>>, "zeros")
            /\ ~sv.ez.supplied[2] => sv.args.mult_x_L = Good(<<sv.n>>, "zeros")
            /\ ~sv.ez.supplied[3] => sv.args.mult_x_U = Good(<<sv.n>>, "zeros")

C7_Witness ==
    /\ sv.layer = "ez"
    /\ sv.called
    /\ sv.ez.prev = "yes"
    /\ sv.ez.warm = "no"
    /\ sv.ez.supplied = <<FALSE, FALSE, FALSE>>

\* C8: with copy=True the native solve is handed a fresh double array of
\* shape (n,), never the caller's x, and that array is returned with an info
\* mapping of g (length m), obj_val, the multipliers and the status; with
\* copy=False the array handed over and returned is the caller's own.
C8_SolutionBuffer ==
    (sv.layer = "ez" /\ sv.called) =>
        /\ sv.ez.copy =>
             /\ sv.ptrs.x # "caller"
             /\ sv.args.x = Good(<<sv.n>>, "copy")
             /\ sv.ez.ret = sv.args.x
        /\ ~sv.ez.copy =>
             /\ sv.ez.ret = sv.ez.x
             /\ sv.args.x = sv.ez.x
             /\ sv.n > 0 => sv.ptrs.x = "caller"
        /\ DOMAIN sv.ez.info =
             {"g", "obj_val", "mult_g", "mult_x_L", "mult_x_U", "status"}
        /\ sv.ez.info.g = Good(<<sv.m>>, "empty")
        /\ sv.ez.info.obj_val = Good(<<>>, "empty")
        /\ sv.ez.info.mult_g = sv.args.mult_g
        /\ sv.ez.info.mult_x_L = sv.args.mult_x_L
        /\ sv.ez.info.mult_x_U = sv.args.mult_x_U
        /\ sv.ez.info.status = last.info.status

C8_Witness ==
    /\ sv.layer = "ez"
    /\ sv.called
    /\ sv.ez.copy
    /\ sv.ez.x.kind = "list"
    /\ sv.n > 0

\* What C4 requires of an argument a of expected shape e: None (except for
\* x), or an aligned writeable ndarray of doubles of exactly that shape.
C4_Valid(a, e, isX) ==
    IF a.kind = "None" THEN ~isX
    ELSE /\ a.kind = "ndarray"
         /\ a.dtype = "double"
         /\ a.aligned
         /\ a.writeable
         /\ a.shape = e

C4_Bad(rec) ==
    {i \in 1..Len(ArgNames) :
        ~C4_Valid(rec.args[ArgNames[i]],
                  ExpectedShape(ArgNames[i], rec.n, rec.m), ArgNames[i] = "x")}

C4_First(S) == CHOOSE i \in S : \A j \in S : i <= j

\* C4: bare_np's solve raises, without calling IpoptSolve, when an argument
\* is invalid: TypeError when the first invalid argument (in the order x, g,
\* obj_val, mult_g, mult_x_L, mult_x_U) is no ndarray of doubles, ValueError
\* when it is misaligned, read-only or of another shape; it calls IpoptSolve
\* exactly when every argument is valid.
C4_ValidateBeforeNative ==
    sv.layer = "bare_np" =>
        LET bad == C4_Bad(sv)
        IN  /\ bad # {} =>
                 LET a == sv.args[ArgNames[C4_First(bad)]]
                 IN  /\ ~sv.called
                     /\ ~last.native
                     /\ sv.exc = (IF a.kind # "ndarray" \/ a.dtype # "double"
                                  THEN "TypeError" ELSE "ValueError")
            /\ bad = {} => (sv.called /\ sv.exc = "none" /\ last.native)

C4_Witness ==
    /\ sv.layer = "bare_np"
    /\ sv.exc = "ValueError"
    /\ ~sv.called
    /\ C4_Valid(sv.args.x, <<sv.n>>, TRUE)
    /\ sv.args.g = Good(Wrong(<<sv.m>>), "caller")
    /\ sv.args.obj_val.dtype = "float32"

\* C5 (as claimed): an array that is not contiguous in memory never reaches
\* the native IpoptSolve.
C5_ContiguousOnly ==
    (sv.layer = "bare_np" /\ sv.called) =>
        \A a \in ArgSet :
            sv.args[a].kind = "ndarray" => sv.args[a].contiguous

\* C1 (as claimed): whenever an exception is raised while a wrapper runs, by
\* the user's callback or by the handler, no exception leaves the wrapper and
\* the native caller gets 0.
C1_NoExceptionEscapes ==
    (cb.kind = "done" /\ cb.raised) => (cb.escaped = "none" /\ cb.ret = 0)

\* C6 (as claimed): for user functions that return normally, ez's Jacobian
\* and Hessian callbacks return 1; a value query fills the value buffer from
\* the value function and leaves the index buffers as they were; a structure
\* query fills iRow and jCol with the index pattern and calls no value
\* function; with zero-length buffers no user function is called.
C6_TwoPhase ==
    (/\ cb.kind = "done"
     /\ cb.q.layer = "ez"
     /\ cb.q.wrapper \in {"eval_jac_g", "eval_h"}
     /\ cb.q.user.exc = "none") =>
        LET q == cb.q
            r == cb.sparse
        IN  /\ cb.ret = 1
            /\ cb.escaped = "none"
            /\ q.nele = 0 => r.calls = {}
            /\ (~q.valuesNull /\ q.nele > 0) =>
                 /\ r.values.data = UserValues(q.nele)
                 /\ r.iRow = Buffer(q.iRowNull, q.nele)
                 /\ r.jCol = Buffer(q.jColNull, q.nele)
                 /\ r.calls = {"val"}
            /\ (q.valuesNull /\ ~q.iRowNull /\ ~q.jColNull /\ q.nele > 0) =>
                 /\ r.iRow.data = UserRows(q.nele)
                 /\ r.jCol.data = UserCols(q.nele)
                 /\ "val" \notin r.calls

\* ------------------------------------------------------------ C11, C12, C14
OptionOps == {"add_str_option", "add_int_option", "add_num_option"}

\* C11 (as claimed): add_str_option, add_int_option and add_num_option raise a
\* ValueError exactly when the native AddIpopt*Option call returned the status
\* zero, and return normally when it returned success.
C11_ValueErrorIffStatus ==
    last.op \in OptionOps =>
        /\ IsValueError(last.exc) <=> (last.native /\ ~last.info.ok)
        /\ (last.native /\ last.info.ok) => last.exc = "none"

\* C11 (amended): for a keyword (and a string value) that is bytes or encodes
\* as ASCII the native function is called, and the method raises ValueError
\* exactly when it returned zero and returns normally otherwise; for a str
\* that does not encode, UnicodeEncodeError is raised and no native call made.
C11_OptionStatus ==
    last.op \in OptionOps =>
        LET i == last.info
            encodes == /\ i.kw # "non_ascii"
                       /\ (last.op = "add_str_option" => i.val # "non_ascii")
        IN  /\ last.native <=> encodes
            /\ encodes => (last.exc = "ValueError" <=> ~i.ok)
            /\ (encodes /\ i.ok) => last.exc = "none"
            /\ ~encodes => last.exc = "UnicodeEncodeError"

C11_Witness ==
    /\ last.op = "add_int_option"
    /\ last.info.kw = "ascii"
    /\ ~last.info.ok
    /\ last.native
    /\ last.exc = "ValueError"

\* C12 (as claimed): set_problem_scaling reaches SetIpoptProblemScaling exactly
\* when x_scaling has shape (n,) and g_scaling has shape (m,), and raises
\* ValueError without a native call otherwise.
C12_ScalingShapes ==
    last.op = "set_problem_scaling" =>
        LET i == last.info
            shaped == i.xs = <<i.n>> /\ i.gs = <<i.m>>
        IN  /\ last.native <=> shaped
            /\ ~shaped => last.exc = "ValueError"
            /\ shaped => last.exc # "ValueError"

\* C14 (as claimed): no native function is ever called with a handle that is
\* null or has been released.
C14_LiveHandle == ~nBad

\* ---------------------------------------------------------------------- C13
\* C13: on an ez.Problem the intermediate callback installed at construction
\* returns 0 if and only if a KeyboardInterrupt has been raised inside one of
\* the problem's evaluation callbacks before, and 1 otherwise; an evaluation
\* callback in which any exception is raised returns 0, and only a
\* KeyboardInterrupt sets the abort flag; the flag is never cleared, so it
\* stays set through every later solve.
C13_AbortSignalling ==
    /\ [](/\ abort <=> cb.kbd # 0
          /\ cb.kind = "intermediate" =>
                cb.ret = (IF cb.kbd # 0 THEN 0 ELSE 1)
          /\ (cb.kind = "eval" /\ cb.exc # "none") => cb.ret = 0)
    /\ [][abort => abort']_vars

C13_Witness ==
    /\ cb.kind = "intermediate"
    /\ cb.solve = 2
    /\ cb.kbd = 1
    /\ cb.ret = 0
    /\ abort

\* ----------------------------------------------------------------- C15, C16
\* C15 (as claimed): a constructor called without a Hessian callback, with
\* bounds of consistent sizes, raises only if the native library reports a
\* failure, and when it returns the Problem holds the live handle it created
\* and its callbacks; and no constructor call raises after a handle was
\* created for it.
C15_NoHessianConstructs ==
    last.op = "init" =>
        LET i == last.info
        IN  /\ (~i.h /\ i.xl = i.xu /\ i.gl = i.gu /\ i.createOk) =>
                 /\ last.exc \in {"none", "RuntimeError"}
                 /\ last.exc = "none" =>
                        /\ problem = i.handle
                        /\ problem \in nLive
                        /\ hasCallbacks
                        /\ InitCallbacks(problem) \subseteq callbacks
            /\ ~i.h => (last.exc # "none" => i.handle \notin nLive)

\* C16 (as claimed): in a value query with a value function that returns, ez's
\* Jacobian and Hessian callbacks return 1 with the value buffer filled; a
\* value function whose signature has `out` after its first parameter is
\* called with out= the buffer, any other has its result copied; and a Hessian
\* value function is given obj_factor and the multipliers besides x.
C16_InPlaceValues ==
    (/\ cb.kind = "done"
     /\ cb.q.layer = "ez"
     /\ cb.q.wrapper \in {"eval_jac_g", "eval_h"}
     /\ cb.q.user.exc = "none"
     /\ ~cb.q.valuesNull
     /\ cb.q.nele > 0) =>
        LET q == cb.q
            r == cb.sparse
            given(a) == \E k \in DOMAIN r.valArgs : r.valArgs[k] = a
        IN  /\ cb.ret = 1
            /\ r.values.data = UserValues(q.nele)
            /\ given("x")
            /\ given("out") <=> q.sig = "later"
            /\ q.wrapper = "eval_h" => (given("obj_factor") /\ given("mult"))

====
